---------------------------- MODULE Spec2Model ----------------------------
(***************************************************************************)
(* Bellingcat Radar Interference Tracker (src/RIT.js): the widget state    *)
(* of the Earth Engine app and its event handlers.                         *)
(*                                                                         *)
(* Time is counted in ticks since 1970-01-01T00:00 UTC, TicksPerDay ticks  *)
(* to the day (the code's milliseconds, coarsened).  Opacities are in      *)
(* hundredths (0.8 is 80).  Coordinates are in micro-degrees.              *)
(***************************************************************************)
EXTENDS Integers, Sequences, FiniteSets, TLC

\* Resolution of the clock: instants per UTC day.
TicksPerDay == 2

\* Cap on the length of the map's layer list (mapPanel.addLayer appends).
MaxLayers == 6

\* Cap on the number of unanswered requests of replaced objects.
MaxStale == 2

(***************************************************************************)
(* ee.Date: the proleptic Gregorian calendar in UTC.                       *)
(***************************************************************************)

\* Day number (days since 1970-01-01) of a civil date, the year counted from
\* March (yy, with mp the months since March).
daysFromMarch(yy, mp, d) ==
    (yy \div 400) * 146097 + (yy % 400) * 365 + (yy % 400) \div 4
        - (yy % 400) \div 100 + (153 * mp + 2) \div 5 + d - 1 - 719468

DaysFromCivil(y, m, d) ==
    daysFromMarch(IF m <= 2 THEN y - 1 ELSE y, IF m > 2 THEN m - 3 ELSE m + 9, d)

\* Civil date [y, m, d] of a day number, by way of the day of the 400-year
\* era (doe), the year of the era (yoe), the day of the year counted from
\* March (doy) and the months since March (mp).
civilOfMarch(y, doy, mp) ==
    [y |-> IF mp < 10 THEN y ELSE y + 1,
     m |-> IF mp < 10 THEN mp + 3 ELSE mp - 9,
     d |-> doy - (153 * mp + 2) \div 5 + 1]

civilOfYear(era, doe, yoe) ==
    civilOfMarch(yoe + era * 400,
                 doe - (365 * yoe + yoe \div 4 - yoe \div 100),
                 (5 * (doe - (365 * yoe + yoe \div 4 - yoe \div 100)) + 2) \div 153)

civilOfEra(era, doe) ==
    civilOfYear(era, doe,
                (doe - doe \div 1460 + doe \div 36524 - doe \div 146096) \div 365)

CivilFromDays(n) ==
    civilOfEra((n + 719468) \div 146097, (n + 719468) % 146097)

\* ee.Date(string "YYYY-MM-DD"), the instant at 00:00 UTC plus k ticks.
DateOf(y, m, d, k) == DaysFromCivil(y, m, d) * TicksPerDay + k

Civil(t) == CivilFromDays(t \div TicksPerDay)

\* ee.Date.advance(delta, "week")
advanceWeek(t, delta) == t + delta * 7 * TicksPerDay

MonthNames ==
    << "January", "February", "March", "April", "May", "June", "July",
       "August", "September", "October", "November", "December" >>

\* ee.Date.format("MMMM dd, YYYY").getInfo()
formatCivil(c) == [MMMM |-> MonthNames[c.m], dd |-> c.d, YYYY |-> c.y]

format(t) == formatCivil(Civil(t))

\* The day that holds t, as a DateRange.
dayRange(t) ==
    [start |-> (t \div TicksPerDay) * TicksPerDay,
     end   |-> (t \div TicksPerDay) * TicksPerDay + TicksPerDay]

\* The calendar month and the calendar year of the civil date c.
monthRange(c) ==
    [start |-> DateOf(c.y, c.m, 1, 0),
     end   |-> IF c.m = 12 THEN DateOf(c.y + 1, 1, 1, 0)
                           ELSE DateOf(c.y, c.m + 1, 1, 0)]

yearRange(c) ==
    [start |-> DateOf(c.y, 1, 1, 0), end |-> DateOf(c.y + 1, 1, 1, 0)]

\* getRange with every month taken as 30 days long.
getRange_month30(t, unit) ==
    CASE unit = "year"  -> yearRange(Civil(t))
      [] unit = "month" ->
             [start |-> monthRange(Civil(t)).start,
              end   |-> monthRange(Civil(t)).start + 30 * TicksPerDay]
      [] unit = "day"   -> dayRange(t)

\* ee.Date.getRange(unit): the calendar unit holding t, as a DateRange.
getRange(t, unit) ==
    CASE unit = "year"  -> yearRange(Civil(t))
      [] unit = "month" -> monthRange(Civil(t))
      [] unit = "day"   -> dayRange(t)

\* ui.DateSlider with period 1: the value held for an instant is the one-day
\* range, on UTC day boundaries, that holds it.
sliderRange(t) == getRange(t, "day")

(***************************************************************************)
(* Step 8 data: the example locations, and the points of the map that are  *)
(* clicked.                                                                *)
(***************************************************************************)

initialPoint == [lon |-> 49950656, lat |-> 26605644]

\* The narrative labels each location function builds, and the opacity it
\* passes to configureExample.
loc1_text == << "loc1.lab1", "loc1.link", "loc1.lab2", "loc1.lab3" >>
loc2_text == << "loc2.lab1", "loc2.lab2", "loc2.lab3" >>
loc3_text == << "loc3.lab1", "loc3.lab2", "loc3.lab3" >>
loc4_text == << "loc4.lab1", "loc4.lab2" >>

locationDict ==
    [ Dammam     |-> [lon |-> 49949916, lat |-> 26606379, zoom |-> 19,
                      date |-> DateOf(2022, 1, 1, 0), outline |-> TRUE,
                      text |-> loc1_text, opacity |-> 10],
      Dimona     |-> [lon |-> 35094879, lat |-> 30968508, zoom |-> 11,
                      date |-> DateOf(2019, 2, 19, 0), outline |-> FALSE,
                      text |-> loc2_text, opacity |-> 80],
      Rostov     |-> [lon |-> 39783387, lat |-> 47354445, zoom |-> 11,
                      date |-> DateOf(2021, 7, 22, 0), outline |-> FALSE,
                      text |-> loc3_text, opacity |-> 80],
      WhiteSands |-> [lon |-> -106312200, lat |-> 31973500, zoom |-> 10,
                      date |-> DateOf(2021, 12, 14, 0), outline |-> FALSE,
                      text |-> loc4_text, opacity |-> 80] ]

locations == DOMAIN locationDict

coordsOf(value) == [lon |-> locationDict[value].lon, lat |-> locationDict[value].lat]

\* A point of the map that is no example location.
otherPoint == [lon |-> 35000000, lat |-> 31000000]

\* The points the user clicks on the map.
ClickPoints == {otherPoint}

P_init == initialPoint
P_dam  == coordsOf("Dammam")
P_dim  == coordsOf("Dimona")
P_ros  == coordsOf("Rostov")
P_ws   == coordsOf("WhiteSands")
P_oth  == otherPoint

(***************************************************************************)
(* Step 1: the Sentinel-1 archive and the collections derived from it.     *)
(* An observation carries its acquisition time, orbit pass, instrument     *)
(* mode, polarisations, and one raster per band: a function from the       *)
(* points it covers to backscatter (dB).                                   *)
(***************************************************************************)

Obs(id, time, pass, mode, pols, VH, VV) ==
    [id |-> id, time |-> time, pass |-> pass, mode |-> mode, pols |-> pols,
     VH |-> VH, VV |-> VV]

DualPol == {"VV", "VH"}

sentinel1 ==
    { Obs(1, DateOf(2018, 6, 10, 1), "ASCENDING", "IW", DualPol,
          (P_init :> -8 @@ P_dam :> -9 @@ P_dim :> -22),
          (P_init :> -5 @@ P_dam :> -6 @@ P_dim :> -12)),
      Obs(2, DateOf(2018, 6, 20, 0), "ASCENDING", "IW", DualPol,
          (P_init :> -11 @@ P_dim :> -6),
          (P_init :> -3 @@ P_dim :> -13)),
      Obs(3, DateOf(2018, 6, 10, 0), "DESCENDING", "IW", DualPol,
          (P_init :> -15 @@ P_dam :> -14 @@ P_oth :> -21),
          (P_init :> -7 @@ P_dam :> -4 @@ P_oth :> -11)),
      Obs(4, DateOf(2018, 6, 12, 0), "ASCENDING", "EW", DualPol,
          (P_init :> 0 @@ P_dam :> 0 @@ P_dim :> 0),
          (P_init :> 9 @@ P_dam :> 9 @@ P_dim :> 9)),
      Obs(5, DateOf(2018, 6, 13, 1), "DESCENDING", "IW", {"VV"},
          << >>,
          (P_init :> 8 @@ P_dam :> 8)),
      Obs(6, DateOf(2018, 12, 31, 1), "ASCENDING", "IW", DualPol,
          (P_dim :> -3 @@ P_oth :> -19),
          (P_dim :> -2 @@ P_oth :> -10)),
      Obs(7, DateOf(2019, 1, 1, 0), "DESCENDING", "IW", DualPol,
          (P_dim :> -1 @@ P_ros :> -18),
          (P_dim :> 1 @@ P_ros :> -9)),
      Obs(8, DateOf(2019, 2, 19, 1), "ASCENDING", "IW", DualPol,
          (P_dim :> -4),
          (P_dim :> -8)),
      Obs(9, DateOf(2021, 7, 22, 1), "DESCENDING", "IW", DualPol,
          (P_ros :> -7 @@ P_ws :> -23),
          (P_ros :> -6 @@ P_ws :> -14)),
      Obs(10, DateOf(2021, 12, 14, 1), "ASCENDING", "IW", DualPol,
          (P_ws :> -2),
          (P_ws :> 2)),
      Obs(11, DateOf(2021, 12, 14, 0), "DESCENDING", "IW", DualPol,
          (P_ws :> -16 @@ P_init :> -17),
          (P_ws :> -9 @@ P_init :> -10)),
      Obs(12, DateOf(2022, 1, 1, 0), "ASCENDING", "IW", DualPol,
          (P_init :> -5 @@ P_dam :> -4),
          (P_init :> -1 @@ P_dam :> 0)),
      Obs(13, DateOf(2022, 3, 1, 1), "DESCENDING", "IW", DualPol,
          (P_init :> -12 @@ P_dam :> -13 @@ P_oth :> -20),
          (P_init :> -6 @@ P_dam :> -7 @@ P_oth :> -12)),
      Obs(14, DateOf(2022, 3, 1, 0), "ASCENDING", "IW", DualPol,
          (P_init :> -10 @@ P_dam :> -11),
          (P_init :> -4 @@ P_dam :> -5)) }

\* Date.now() when the script is loaded.
DateNow == DateOf(2022, 3, 8, 1)

\* Images with VV and VH dual polarisation, in interferometric wide swath mode.
vh ==
    {o \in sentinel1 : "VH" \in o.pols /\ "VV" \in o.pols /\ o.mode = "IW"}

vhA == {o \in vh : o.pass = "ASCENDING"}
vhD == {o \in vh : o.pass = "DESCENDING"}

\* ImageCollection.filterDate(start, end): start inclusive, end exclusive.
filterDate(coll, start, end) ==
    {o \in coll : start <= o.time /\ o.time < end}

\* ImageCollection.select(band): the collection of single-band images.
select(coll, band) ==
    {[id |-> o.id, time |-> o.time, band |-> band, px |-> o[band]] : o \in coll}

\* ImageCollection.merge
merge(a, b) == a \cup b

RECURSIVE reduceMax(_)
reduceMax(S) ==
    LET x == CHOOSE v \in S : TRUE
        r == S \ {x}
    IN  IF r = {} THEN x
        ELSE LET m == reduceMax(r) IN IF x > m THEN x ELSE m

\* max with the reduction of an empty collection taken as an image of one
\* band that is masked everywhere.
max_maskedBand(coll) ==
    << [p \in UNION {DOMAIN i.px : i \in coll} |->
          reduceMax({i.px[p] : i \in {j \in coll : p \in DOMAIN j.px}})] >>

\* ImageCollection.max(): an image, given as the sequence of its bands.  A
\* pixel holds the maximum over the images that cover it and is masked where
\* none does; the reduction of an empty collection is an image with no bands.
max(coll) ==
    IF coll = {} THEN << >>
    ELSE << [p \in UNION {DOMAIN i.px : i \in coll} |->
               reduceMax({i.px[p] : i \in {j \in coll : p \in DOMAIN j.px}})] >>

\* ee.Image.cat: the bands of the images, in order.
cat(images) ==
    LET RECURSIVE go(_)
        go(k) == IF k > Len(images) THEN << >> ELSE images[k] \o go(k + 1)
    IN  go(1)

(***************************************************************************)
(* Step 2: the map's layer list.  A ui.Map.Layer is its Earth Engine       *)
(* object, name, shown flag and opacity; mapPanel.layers() is a list with  *)
(* 0-based indices.                                                        *)
(***************************************************************************)

Layer(eeObject, opacity, name, shown) ==
    [eeObject |-> eeObject, name |-> name, shown |-> shown, opacity |-> opacity]

\* ui.data.ActiveList.get(index)
listGet(list, index) == list[index + 1]

\* ui.data.ActiveList.set(index, el): replaces the element held at the
\* index; at the end of the list the element is added.
listSet(list, index, el) ==
    IF index < Len(list) THEN [list EXCEPT ![index + 1] = el]
    ELSE Append(list, el)

setShown(layer, shown) == [layer EXCEPT !.shown = shown]
setOpacity(layer, value) == [layer EXCEPT !.opacity = value]

(***************************************************************************)
(* Step 6: the date selector.                                              *)
(***************************************************************************)

\* composite with the VV channel taken from the ascending passes alone.
composite_noMerge(A, D) ==
    cat(<< max(select(A, "VH")), max(select(A, "VV")), max(select(D, "VH")) >>)

\* The composite of one time window: VH of the ascending passes, VV of both
\* passes merged, VH of the descending passes, each reduced by maximum.
composite(A, D) ==
    cat(<< max(select(A, "VH")),
           max(merge(select(A, "VV"), select(D, "VV"))),
           max(select(D, "VH")) >>)

\* The Day layer of slide: the collection of the range itself.
daily(range, selected) ==
    Layer([type |-> "ImageCollection", of |-> range.start, window |-> range,
           content |-> {o.id : o \in filterDate(vh, range.start, range.end)}],
          80, "Day", "Day" = selected)

\* The Month layer of slide: the composite of the month of the range's start.
monthly(range, selected) ==
    LET month == getRange(range.start, "month")
        vhA_monthly == filterDate(vhA, month.start, month.end)
        vhD_monthly == filterDate(vhD, month.start, month.end)
    IN  Layer([type |-> "Image", of |-> range.start, window |-> month,
               content |-> composite(vhA_monthly, vhD_monthly)],
              80, "Month", "Month" = selected)

\* The Year layer with the year taken as the 365 days from the range's start.
yearly_fromAnchor(range, selected) ==
    LET year == [start |-> range.start, end |-> range.start + 365 * TicksPerDay]
        vhA_annual == filterDate(vhA, year.start, year.end)
        vhD_annual == filterDate(vhD, year.start, year.end)
    IN  Layer([type |-> "Image", of |-> range.start, window |-> year,
               content |-> composite(vhA_annual, vhD_annual)],
              80, "Year", "Year" = selected)

\* The Year layer of slide: the composite of the year of the range's start.
yearly(range, selected) ==
    LET year == getRange(range.start, "year")
        vhA_annual == filterDate(vhA, year.start, year.end)
        vhD_annual == filterDate(vhD, year.start, year.end)
    IN  Layer([type |-> "Image", of |-> range.start, window |-> year,
               content |-> composite(vhA_annual, vhD_annual)],
              80, "Year", "Year" = selected)

\* setLayers with the three layers set at indices 1, 2 and 3.
setLayers_fromOne(list, d, m, y) == listSet(listSet(listSet(list, 1, d), 2, m), 3, y)

\* "Add layers to map": the three layers set at indices 0, 1 and 2.
setLayers(list, d, m, y) == listSet(listSet(listSet(list, 0, d), 1, m), 2, y)

\* slide with the three layers added to the map instead of set at indices
\* 0, 1 and 2.
slide_addLayers(list, range, selected) ==
    list \o << daily(range, selected), monthly(range, selected),
               yearly(range, selected) >>

\* slide with the layers shown by their default visibility (Month) instead
\* of the dropdown's value.
slide_defaultVisibility(list, range, selected) ==
    setLayers(list, daily(range, "Month"), monthly(range, "Month"),
              yearly(range, "Month"))

\* slide, from the aggregation on: the layer list after the three layers of
\* the range are built and set.
slide(list, range, selected) ==
    setLayers(list, daily(range, selected), monthly(range, selected),
              yearly(range, selected))

(***************************************************************************)
(* Step 7: the RFI chart.                                                  *)
(***************************************************************************)

\* Number.toFixed(2) of a coordinate, in hundredths of a degree.
toFixed(x) ==
    IF x >= 0 THEN (x + 5000) \div 10000 ELSE -((5000 - x) \div 10000)

\* ui.Chart.image.series(vh.select("VH"), point, ee.Reducer.max(), 500): one
\* (time, value) entry per image that covers the point, in time order.
series(coords) ==
    LET imgs == {i \in select(vh, "VH") : coords \in DOMAIN i.px}
        RECURSIVE go(_)
        go(S) == IF S = {} THEN << >>
                 ELSE LET f == CHOOSE i \in S : \A j \in S : i.time <= j.time
                      IN  << <<f.time, f.px[coords]>> >> \o go(S \ {f})
    IN  go(imgs)

\* The dot layer of generateChart.
dot(coords) ==
    Layer([type |-> "FeatureCollection", point |-> coords], 100,
          "clicked location", TRUE)

\* generateChart with the dot added to the map instead of set at index 3.
generateChart_addLayer(list, coords) == Append(list, dot(coords))

\* generateChart, the map part: the dot set at index 3.
generateChart(list, coords) == listSet(list, 3, dot(coords))

\* generateChart, the panel part: the chart widget set at index 3.
chartOf(coords) ==
    [title |-> <<toFixed(coords.lon), toFixed(coords.lat)>>,
     point |-> coords, data |-> series(coords)]

(***************************************************************************)
(* Step 8: the example locations.                                          *)
(***************************************************************************)

\* mapPanel.addLayer(outline, vis) of loc1_function.
outlineLayer == Layer([type |-> "Image", paint |-> "outline"], 100, "Layer", TRUE)

\* addLayer with the layer inserted at the front of the list.
addLayer_insertFirst(list, layer) == << layer >> \o list

addLayer(list, layer) == Append(list, layer)

\* configureExample without the loop that hides every layer.
configureExample_noHide(list, opacity) ==
    LET m == [list EXCEPT ![2] = setShown(list[2], TRUE)]
        d == [m EXCEPT ![4] = setShown(m[4], TRUE)]
    IN  [d EXCEPT ![2] = setOpacity(d[2], opacity)]

\* configureExample that leaves the opacity of the layer at index 1 alone.
configureExample_noOpacity(list, opacity) ==
    LET hidden == [i \in DOMAIN list |-> setShown(list[i], FALSE)]
        m      == [hidden EXCEPT ![2] = setShown(hidden[2], TRUE)]
    IN  [m EXCEPT ![4] = setShown(m[4], TRUE)]

\* configureExample, the map part.
configureExample(list, opacity) ==
    LET hidden == [i \in DOMAIN list |-> setShown(list[i], FALSE)]
        m      == [hidden EXCEPT ![2] = setShown(hidden[2], TRUE)]
        d      == [m EXCEPT ![4] = setShown(m[4], TRUE)]
    IN  [d EXCEPT ![2] = setOpacity(d[2], opacity)]

\* location.func(): the layer list after the location function has run.
locationFunc(list, value) ==
    configureExample(
        IF locationDict[value].outline THEN addLayer(list, outlineLayer) ELSE list,
        locationDict[value].opacity)

(***************************************************************************)
(* Step 4 and 5: the aggregation dropdown and the opacity slider.           *)
(***************************************************************************)

selectItems == <<"Day", "Month", "Year">>

dict == [Day |-> "daily", Month |-> "monthly", Year |-> "yearly"]

\* showSelected that builds the layers anew, for the date the app started with.
showSelected_rebuild(list, selected) ==
    LET built == slide(list, getRange(advanceWeek(DateNow, -1), "day"), selected)
    IN  [i \in DOMAIN built |-> setShown(built[i], selected = built[i].name)]

\* layerSelect's onChange, the map part.
showSelected(list, selected) ==
    [i \in DOMAIN list |-> setShown(list[i], selected = list[i].name)]

\* onSlide that sets the opacity of the layer at index 1 alone.
slideOpacity_monthOnly(list, value) ==
    [list EXCEPT ![2] = setOpacity(list[2], value)]

\* opacitySlider's onSlide.
slideOpacity(list, value) ==
    [i \in DOMAIN list |-> setOpacity(list[i], value)]

(***************************************************************************)
(* The state of the app.                                                   *)
(***************************************************************************)

VARIABLES
    layers,         \* mapPanel.layers()
    layerSelect,    \* value of the aggregation dropdown
    image_info,     \* the label naming the level of aggregation
    date,           \* the label showing the date
    dateSlider,     \* value of the date slider, a one-day DateRange
    opacitySlider,  \* value of the opacity slider
    lonlat,         \* the lon and lat labels
    rfiChart,       \* the chart widget at index 3 of the inspector panel
    textpanel,      \* the labels of the panel at index 10, << >> while unset
    center,         \* centre and zoom of the map
    pending,        \* requests of the objects on display that are unanswered
    stale,          \* unanswered requests of objects that have been replaced
    last            \* the event handled last, whether its handler completed,
                    \* and whether an answer to a replaced object's request
                    \* has arrived after the answer to the request in its place

vars ==
    << layers, layerSelect, image_info, date, dateSlider, opacitySlider, lonlat,
       rfiChart, textpanel, center, pending, stale, last >>

\* now without the week's backdating.
now_notBackdated == DateNow

now == advanceWeek(DateNow, -1)

Init ==
    /\ layerSelect = selectItems[2]
    /\ image_info = "monthly"
    /\ dateSlider = sliderRange(now)
    /\ date = format(sliderRange(now).start)
    /\ layers =
         LET built == generateChart(slide(<< >>, sliderRange(now), selectItems[2]),
                                    initialPoint)
         IN  [built EXCEPT ![2] = setShown(built[2], TRUE)]
    /\ opacitySlider = 100
    /\ lonlat = <<toFixed(initialPoint.lon), toFixed(initialPoint.lat)>>
    /\ rfiChart = chartOf(initialPoint)
    /\ textpanel = << >>
    /\ center = [lon |-> initialPoint.lon, lat |-> initialPoint.lat, zoom |-> 11]
    /\ pending = {}
    /\ stale = {}
    /\ last = [op |-> "init", ok |-> TRUE, late |-> FALSE]

(***************************************************************************)
(* Requests to the compute service.  A layer's tiles and a chart's data    *)
(* are answered after the handler that built the object has returned; the  *)
(* answer belongs to that object.  When the object is replaced while its   *)
(* request is unanswered, the request is stale: its answer arrives for an  *)
(* object that is on display no longer.  A stale request is kept with what *)
(* it was made for: the range of the layers, the point of the chart.       *)
(* A handler is given async = FALSE when its requests are answered before  *)
(* the next event, and then leaves nothing pending.                        *)
(***************************************************************************)

\* The request of the given kind made for the objects on display.
requestOf(kind) ==
    [kind |-> kind,
     of   |-> IF kind = "tiles" THEN layers[1].eeObject.window ELSE rfiChart.point]

pendingAfter(p, kinds, async) == IF async THEN p \cup kinds ELSE p
staleAfter(p, s, kinds, async) ==
    IF async THEN s \cup {requestOf(kind) : kind \in p \cap kinds} ELSE s

(***************************************************************************)
(* The days the user picks on the date slider.                             *)
(***************************************************************************)
SliderDates == {DateOf(2018, 6, 10, 0), DateOf(2020, 2, 29, 0)}

\* The values the user slides the opacity slider to.
OpacityValues == {0, 45}

(***************************************************************************)
(* The handlers.                                                           *)
(***************************************************************************)

\* layerSelect's onChange (lines 116-136).
layerSelect_onChange(selected) ==
    /\ layerSelect' = selected
    /\ layers' = showSelected(layers, selected)
    /\ image_info' = IF Len(layers) > 0 THEN dict[selected] ELSE image_info
    /\ last' = [op |-> "layerSelect", ok |-> TRUE, late |-> FALSE]
    /\ UNCHANGED << date, dateSlider, opacitySlider, lonlat, rfiChart, textpanel,
                    center, pending, stale >>

\* opacitySlider's onSlide (lines 147-151).
opacitySlider_onSlide(value) ==
    /\ opacitySlider' = value
    /\ layers' = slideOpacity(layers, value)
    /\ last' = [op |-> "opacity", ok |-> TRUE, late |-> FALSE]
    /\ UNCHANGED << layerSelect, image_info, date, dateSlider, lonlat, rfiChart,
                    textpanel, center, pending, stale >>

\* setValue with the date label set before anything of slide can throw.
setValue_labelFirst(t, ok, async) ==
    /\ Cardinality(staleAfter(pending, stale, {"tiles"}, async)) <= MaxStale
    /\ dateSlider' = sliderRange(t)
    /\ date' = format(sliderRange(t).start)
    /\ layers' = IF ok THEN slide(layers, sliderRange(t), layerSelect) ELSE layers
    /\ pending' = IF ok THEN pendingAfter(pending, {"tiles"}, async) ELSE pending
    /\ stale' = IF ok THEN staleAfter(pending, stale, {"tiles"}, async) ELSE stale

\* dateSlider takes the value of instant t and calls slide with its range.
\* ok: whether the getInfo() call of slide's first statement returns; when
\* it throws, slide ends there.
setValue(t, ok, async) ==
    /\ Cardinality(staleAfter(pending, stale, {"tiles"}, async)) <= MaxStale
    /\ dateSlider' = sliderRange(t)
    /\ date' = IF ok THEN format(sliderRange(t).start) ELSE date
    /\ layers' = IF ok THEN slide(layers, sliderRange(t), layerSelect) ELSE layers
    /\ pending' = IF ok THEN pendingAfter(pending, {"tiles"}, async) ELSE pending
    /\ stale' = IF ok THEN staleAfter(pending, stale, {"tiles"}, async) ELSE stale

\* The user moves the date slider (onChange: slide).
dateSlider_onChange(t, ok, async) ==
    /\ setValue(t, ok, async)
    /\ last' = [op |-> "date", ok |-> ok, late |-> FALSE]
    /\ UNCHANGED << layerSelect, image_info, opacitySlider, lonlat, rfiChart,
                    textpanel, center >>

\* The user clicks the map (mapPanel.onClick(generateChart)).
mapPanel_onClick(coords, async) ==
    /\ Cardinality(staleAfter(pending, stale, {"chart"}, async)) <= MaxStale
    /\ lonlat' = <<toFixed(coords.lon), toFixed(coords.lat)>>
    /\ layers' = generateChart(layers, coords)
    /\ rfiChart' = chartOf(coords)
    /\ pending' = pendingAfter(pending, {"chart"}, async)
    /\ stale' = staleAfter(pending, stale, {"chart"}, async)
    /\ last' = [op |-> "mapClick", ok |-> TRUE, late |-> FALSE]
    /\ UNCHANGED << layerSelect, image_info, date, dateSlider, opacitySlider,
                    textpanel, center >>

\* getDate that sets the slider's value without firing its onChange.
getDate_noTrigger(t, ok, async) ==
    /\ "chart" \notin pending
    /\ \E k \in DOMAIN rfiChart.data : rfiChart.data[k][1] = t
    /\ dateSlider' = sliderRange(t)
    /\ last' = [op |-> "chartClick", ok |-> ok, late |-> FALSE]
    /\ UNCHANGED << layers, date, pending, stale, layerSelect, image_info,
                    opacitySlider, lonlat, rfiChart, textpanel, center >>

\* The user clicks the point of the drawn chart whose x value is t
\* (rfiChart.onClick(getDate)).
getDate(t, ok, async) ==
    /\ "chart" \notin pending
    /\ \E k \in DOMAIN rfiChart.data : rfiChart.data[k][1] = t
    /\ setValue(t, ok, async)
    /\ last' = [op |-> "chartClick", ok |-> ok, late |-> FALSE]
    /\ UNCHANGED << layerSelect, image_info, opacitySlider, lonlat, rfiChart,
                    textpanel, center >>

\* locationSelect's onChange (lines 533-545).  When slide throws, the
\* handler ends before location.func().
locationSelect_onChange(value, ok, async) ==
    LET location == locationDict[value]
        coords   == coordsOf(value)
        range    == sliderRange(location.date)
        charted  == generateChart(layers, coords)
        kinds    == IF ok THEN {"chart", "tiles"} ELSE {"chart"}
    IN  /\ location.outline => Len(layers) < MaxLayers
        /\ Cardinality(staleAfter(pending, stale, kinds, async)) <= MaxStale
        /\ center' = [lon |-> location.lon, lat |-> location.lat,
                      zoom |-> location.zoom]
        /\ lonlat' = <<toFixed(coords.lon), toFixed(coords.lat)>>
        /\ rfiChart' = chartOf(coords)
        /\ dateSlider' = range
        /\ date' = IF ok THEN format(range.start) ELSE date
        /\ layers' = IF ok
                     THEN locationFunc(slide(charted, range, layerSelect), value)
                     ELSE charted
        /\ textpanel' = IF ok THEN location.text ELSE textpanel
        /\ pending' = pendingAfter(pending, kinds, async)
        /\ stale' = staleAfter(pending, stale, kinds, async)
        /\ last' = [op |-> "location", ok |-> ok, late |-> FALSE]
        /\ UNCHANGED << layerSelect, image_info, opacitySlider >>

\* The answer to a request of an object on display arrives.
Response(kind) ==
    /\ kind \in pending
    /\ pending' = pending \ {kind}
    /\ UNCHANGED << layers, layerSelect, image_info, date, dateSlider,
                    opacitySlider, lonlat, rfiChart, textpanel, center, stale, last >>

\* StaleResponse with the answer applied to the view: the layers of the
\* request's range set, or the chart of the request's point drawn.
StaleResponse_applied(req) ==
    /\ req \in stale
    /\ stale' = stale \ {req}
    /\ last' = [last EXCEPT !.late = (req.kind \notin pending)]
    /\ layers' = IF req.kind = "tiles"
                 THEN slide(layers, req.of, layerSelect)
                 ELSE layers
    /\ rfiChart' = IF req.kind = "chart" THEN chartOf(req.of) ELSE rfiChart
    /\ UNCHANGED << layerSelect, image_info, date, dateSlider, opacitySlider,
                    lonlat, textpanel, center, pending >>

\* The answer to a stale request arrives: its object is not on display.
StaleResponse(req) ==
    /\ req \in stale
    /\ stale' = stale \ {req}
    /\ last' = [last EXCEPT !.late = (req.kind \notin pending)]
    /\ UNCHANGED << layers, layerSelect, image_info, date, dateSlider,
                    opacitySlider, lonlat, rfiChart, textpanel, center, pending >>

\* The x values of the chart's points.
ChartTimes == {o.time : o \in sentinel1}

(***************************************************************************)
(* Spec: every handler completes and its requests are answered before the  *)
(* next event.                                                             *)
(***************************************************************************)
Next ==
    \/ \E selected \in DOMAIN dict : layerSelect_onChange(selected)
    \/ \E value \in OpacityValues : opacitySlider_onSlide(value)
    \/ \E t \in SliderDates : dateSlider_onChange(t, TRUE, FALSE)
    \/ \E coords \in ClickPoints : mapPanel_onClick(coords, FALSE)
    \/ \E t \in ChartTimes : getDate(t, TRUE, FALSE)
    \/ \E value \in locations : locationSelect_onChange(value, TRUE, FALSE)

Spec == Init /\ [][Next]_vars

(***************************************************************************)
(* SpecAsync: date changes and map clicks whose requests are answered at   *)
(* any later time, in any order.                                           *)
(***************************************************************************)
NextAsync ==
    \/ \E selected \in DOMAIN dict : layerSelect_onChange(selected)
    \/ \E t \in SliderDates : dateSlider_onChange(t, TRUE, TRUE)
    \/ \E coords \in ClickPoints : mapPanel_onClick(coords, TRUE)
    \/ \E t \in ChartTimes : getDate(t, TRUE, TRUE)
    \/ \E kind \in {"tiles", "chart"} : Response(kind)
    \/ \E req \in stale : StaleResponse(req)

SpecAsync == Init /\ [][NextAsync]_vars

(***************************************************************************)
(* SpecFail: the getInfo() call of slide may throw.                        *)
(***************************************************************************)
NextFail ==
    \/ \E selected \in DOMAIN dict : layerSelect_onChange(selected)
    \/ \E t \in SliderDates, ok \in BOOLEAN : dateSlider_onChange(t, ok, FALSE)
    \/ \E coords \in ClickPoints : mapPanel_onClick(coords, FALSE)
    \/ \E t \in ChartTimes, ok \in BOOLEAN : getDate(t, ok, FALSE)
    \/ \E value \in locations, ok \in BOOLEAN : locationSelect_onChange(value, ok, FALSE)

SpecFail == Init /\ [][NextFail]_vars

(***************************************************************************)
(* Properties.                                                             *)
(***************************************************************************)

IsLeap(y) == (y % 4 = 0 /\ y % 100 # 0) \/ y % 400 = 0

MonthLength(y, m) ==
    CASE m \in {1, 3, 5, 7, 8, 10, 12} -> 31
      [] m \in {4, 6, 9, 11} -> 30
      [] OTHER -> IF IsLeap(y) THEN 29 ELSE 28

YearLength(y) == IF IsLeap(y) THEN 366 ELSE 365

\* The observations of the archive a window of one pass holds.
InWindow(w, pass) ==
    {o \in sentinel1 : /\ o.pass = pass /\ o.mode = "IW" /\ DualPol \subseteq o.pols
                       /\ w.start <= o.time /\ o.time < w.end}

Granularity == {"Day", "Month", "Year"}

\* C1: the windows of the three layers hold the anchor date, start on the
\* UTC day, month and year of the anchor and end one day, one calendar month
\* and one calendar year later; the end is excluded (an observation timed at
\* the end is not in the Day collection, one timed at the start is).  The
\* anchor 2018-06-10 has the Year window [2018-01-01, 2019-01-01).
C1_Windows ==
    /\ Len(layers) >= 3
    /\ LET d == layers[1].eeObject
           m == layers[2].eeObject
           y == layers[3].eeObject
           a == d.of
           c == Civil(a)
       IN  /\ a = dateSlider.start /\ m.of = a /\ y.of = a
           /\ d.window.start <= a /\ a < d.window.end
           /\ d.window.start % TicksPerDay = 0
           /\ d.window.end - d.window.start = TicksPerDay
           /\ m.window.start <= a /\ a < m.window.end
           /\ m.window.start % TicksPerDay = 0
           /\ Civil(m.window.start) = [y |-> c.y, m |-> c.m, d |-> 1]
           /\ m.window.end - m.window.start = MonthLength(c.y, c.m) * TicksPerDay
           /\ y.window.start <= a /\ a < y.window.end
           /\ y.window.start % TicksPerDay = 0
           /\ Civil(y.window.start) = [y |-> c.y, m |-> 1, d |-> 1]
           /\ y.window.end - y.window.start = YearLength(c.y) * TicksPerDay
           /\ d.content = {o.id : o \in InWindow(d.window, "ASCENDING")
                                        \cup InWindow(d.window, "DESCENDING")}
           /\ \A o \in sentinel1 : o.time = d.window.end => o.id \notin d.content
           /\ (c = [y |-> 2018, m |-> 6, d |-> 10]) =>
                 y.window = [start |-> 17532 * TicksPerDay, end |-> 17897 * TicksPerDay]

\* C1 witness: after a date change, an anchor that starts its month and its
\* year (2022-01-01), with an observation timed at that very instant.
C1_Witness ==
    /\ last.op # "init"
    /\ layers[2].eeObject.window.start = layers[1].eeObject.of
    /\ layers[3].eeObject.window.start = layers[1].eeObject.of
    /\ \E o \in sentinel1 : o.time = layers[1].eeObject.of /\ o.id \in layers[1].eeObject.content

\* raster is the per-pixel maximum of band b over the observations S.
IsMaxOf(raster, S, b) ==
    /\ DOMAIN raster = UNION {DOMAIN o[b] : o \in S}
    /\ \A p \in DOMAIN raster :
          /\ \E o \in S : p \in DOMAIN o[b] /\ o[b][p] = raster[p]
          /\ \A o \in S : p \in DOMAIN o[b] => o[b][p] <= raster[p]

DateShown(t) ==
    /\ Len(layers) >= 3
    /\ date = [MMMM |-> MonthNames[Civil(t).m], dd |-> Civil(t).d, YYYY |-> Civil(t).y]
    /\ \A i \in 1..3 :
          /\ layers[i].name = selectItems[i]
          /\ layers[i].eeObject.of = (t \div TicksPerDay) * TicksPerDay
          /\ layers[i].eeObject.window.start <= t
          /\ t < layers[i].eeObject.window.end
          /\ layers[i].opacity = 80
          /\ layers[i].shown <=> (layers[i].name = layerSelect)
    /\ Cardinality({i \in 1..3 : layers[i].shown}) = 1

\* C3: a date change to d leaves the three layers built for the windows of
\* d, the one named by the dropdown's value shown and the other two hidden,
\* and the date label at d, from every reachable state.
C3_DateChange ==
    [][\A t \in SliderDates :
          dateSlider_onChange(t, TRUE, FALSE) => DateShown(t)']_vars

\* C3 witness: a date change made while Year is selected and an example
\* location's text is on display; the Year layer is shown.
C3_Witness ==
    /\ last.op = "date"
    /\ layerSelect = "Year"
    /\ layers[3].shown /\ ~layers[2].shown
    /\ textpanel # << >>

C5_InfoLine ==
    \A i \in DOMAIN layers :
       (layers[i].shown /\ layers[i].name \in Granularity) =>
          /\ image_info = dict[layers[i].name]
          /\ date = format(layers[i].eeObject.of)

\* A step that is a date change to the day of instant t: the slider holds the
\* day, the label names it, the three layers are those slide builds for it
\* from the layer list and the dropdown's value of the step's first state,
\* and nothing else of the view changes.
DateChangeStep(t) ==
    /\ dateSlider' = [start |-> (t \div TicksPerDay) * TicksPerDay,
                      end   |-> (t \div TicksPerDay) * TicksPerDay + TicksPerDay]
    /\ date' = format(t)
    /\ layers' = slide(layers, dateSlider', layerSelect)
    /\ DateShown(t)'
    /\ UNCHANGED << layerSelect, image_info, opacitySlider, lonlat, rfiChart,
                    textpanel, center, pending, stale >>

\* C6: from every reachable state, a click on the chart point of timestamp t
\* is a date change to t, and so is the date slider's own change to t: the
\* date slider's value, the date label, the three layers and their
\* visibility after the click are the ones the date change gives.
C6_ChartClick ==
    [][/\ \A t \in ChartTimes : getDate(t, TRUE, FALSE) => DateChangeStep(t)
       /\ \A t \in SliderDates :
             dateSlider_onChange(t, TRUE, FALSE) => DateChangeStep(t)]_vars

\* C6 witness: a chart click on a point timed within its day (not on the
\* day's start) has set the slider to that day, with Year selected.
C6_Witness ==
    /\ last.op = "chartClick"
    /\ layerSelect = "Year"
    /\ layers[3].shown
    /\ \E k \in DOMAIN rfiChart.data :
          /\ rfiChart.data[k][1] # dateSlider.start
          /\ dateSlider.start <= rfiChart.data[k][1]
          /\ rfiChart.data[k][1] < dateSlider.end
    /\ date = format(dateSlider.start)

\* The view the selection of an example location leaves.
SiteView(value) ==
    LET site == locationDict[value]
    IN  /\ center = [lon |-> site.lon, lat |-> site.lat, zoom |-> site.zoom]
        /\ dateSlider.start = site.date
        /\ dateSlider.end = site.date + TicksPerDay
        /\ date = format(site.date)
        /\ Len(layers) >= 4
        /\ \A i \in 1..3 : layers[i].eeObject.of = site.date
        /\ rfiChart.point = [lon |-> site.lon, lat |-> site.lat]
        /\ lonlat = <<toFixed(site.lon), toFixed(site.lat)>>
        /\ layers[4].name = "clicked location"
        /\ layers[4].eeObject.point = [lon |-> site.lon, lat |-> site.lat]
        /\ layers[4].shown
        /\ layers[2].name = "Month"
        /\ layers[2].shown
        /\ layers[2].opacity = site.opacity
        /\ textpanel = site.text

\* C7: from every reachable state, the selection of an example location
\* leaves the map centred on the location at its zoom, the date slider and
\* the label at its date, the chart, the coordinate labels and the marker
\* at its coordinates, the Month layer shown at its opacity, and the text
\* panel holding its labels and no other.  White Sands: zoom 10,
\* 2021-12-14, opacity 0.8, two labels.
C7_SiteSelection ==
    [][\A value \in locations :
          locationSelect_onChange(value, TRUE, FALSE) =>
             /\ SiteView(value)'
             /\ (value = "WhiteSands") =>
                   /\ center'.zoom = 10
                   /\ Civil(dateSlider'.start) = [y |-> 2021, m |-> 12, d |-> 14]
                   /\ layers'[2].opacity = 80
                   /\ Len(textpanel') = 2]_vars

\* C7 witness: White Sands selected after Dammam (whose outline layer is in
\* the list) while Year was the dropdown's value.
C7_Witness ==
    /\ last.op = "location"
    /\ center.zoom = 10
    /\ Len(layers) > 4
    /\ layerSelect = "Year"
    /\ Len(textpanel) = 2

\* The view shows what the event handled last asked for: the layers and the
\* label are of the date slider's day, the marker and the coordinate labels
\* are of the chart's point, the chart is that point's series.
ViewOfLatest ==
    /\ Len(layers) >= 4
    /\ \A i \in 1..3 : layers[i].eeObject.of = dateSlider.start
    /\ date = format(dateSlider.start)
    /\ layers[4].eeObject.point = rfiChart.point
    /\ lonlat = <<toFixed(rfiChart.point.lon), toFixed(rfiChart.point.lat)>>
    /\ rfiChart.data = series(rfiChart.point)

EmptyWindow(w) ==
    InWindow(w, "ASCENDING") \cup InWindow(w, "DESCENDING") = {}

Markers(list) == {i \in DOMAIN list : list[i].name = "clicked location"}

\* The list holds one marker, at the point, and the chart is of the point.
OneMarkerAndChartAt(list, chart, coords) ==
    /\ Cardinality(Markers(list)) = 1
    /\ \A i \in Markers(list) : list[i].eeObject.point = coords
    /\ chart.point = coords
    /\ chart.title = <<toFixed(coords.lon), toFixed(coords.lat)>>
    /\ chart.data = series(coords)

\* C11: a map click and the selection of an example location leave one
\* clicked-location marker and the chart, both of the clicked coordinates
\* (of the location's); the marker and the chart of the earlier click are
\* in the view no more.  Every other event leaves the marker's point and the
\* chart as they are.
C11_OneMarkerOneChart ==
    [][/\ \A coords \in ClickPoints :
             mapPanel_onClick(coords, FALSE) =>
                OneMarkerAndChartAt(layers', rfiChart', coords)
       /\ \A value \in locations :
             locationSelect_onChange(value, TRUE, FALSE) =>
                OneMarkerAndChartAt(layers', rfiChart', coordsOf(value))
       /\ OneMarkerAndChartAt(layers, rfiChart, rfiChart.point) =>
             OneMarkerAndChartAt(layers', rfiChart', rfiChart'.point)
       /\ (last'.op \notin {"mapClick", "location"}) =>
             /\ rfiChart' = rfiChart
             /\ Markers(layers') = Markers(layers)
             /\ \A i \in Markers(layers) :
                   layers'[i].eeObject = layers[i].eeObject]_vars

\* C11 witness: a map click made after an example location was selected: the
\* one marker and the chart are of the clicked point, not of the location.
C11_Witness ==
    /\ last.op = "mapClick"
    /\ textpanel # << >>
    /\ Cardinality(Markers(layers)) = 1
    /\ \A i \in Markers(layers) : layers[i].eeObject.point = otherPoint
    /\ rfiChart.point = otherPoint
    /\ center.lon # otherPoint.lon

\* C12: in every state the clicked-location marker is shown, at the point
\* the chart is drawn for.
C12_MarkerShown ==
    /\ Markers(layers) # {}
    /\ \A i \in Markers(layers) :
          /\ layers[i].shown
          /\ layers[i].eeObject.point = rfiChart.point

\* C13: a date change to d made right after a date change to d leaves the
\* view as the first left it: the layer list (the three layers, their
\* visibility and opacity, the number of layers), the date label and the
\* slider's value, and all else, are unchanged by the second; slide applied
\* to its own result gives that result.
C13_DateChangeTwice ==
    [][\A t \in SliderDates :
        /\ slide(slide(layers, sliderRange(t), layerSelect), sliderRange(t),
                 layerSelect) = slide(layers, sliderRange(t), layerSelect)
        /\ (/\ last.op = "date"
           /\ last.ok
           /\ dateSlider = sliderRange(t)
            /\ dateSlider_onChange(t, TRUE, FALSE))
              => /\ layers' = layers
                 /\ Len(layers') = Len(layers)
                 /\ date' = date
                 /\ dateSlider' = dateSlider
                 /\ UNCHANGED << layerSelect, image_info, opacitySlider, lonlat,
                                 rfiChart, textpanel, center, pending, stale >>]_vars

\* C13 witness: the view a date change leaves (and leaves again when made a
\* second time), with Year selected and the opacity slider moved before it.
C13_Witness ==
    /\ last.op = "date"
    /\ last.ok
    /\ dateSlider.start \in SliderDates
    /\ layerSelect = "Year"
    /\ opacitySlider = 45
    /\ \E t \in SliderDates :
          /\ dateSlider = sliderRange(t)
          /\ layers = slide(layers, sliderRange(t), layerSelect)

\* C14: a move of the opacity slider to v gives every layer that is shown
\* the opacity v and computes nothing anew: the Earth Engine objects of the
\* layers (sources and windows), their names and shown flags, the number of
\* layers, the date, the chart and its point, the dropdown's value and the
\* requests are as they were.
C14_OpacityChange ==
    [][\A value \in OpacityValues :
          opacitySlider_onSlide(value) =>
             /\ value >= 0 /\ value <= 100
             /\ opacitySlider' = value
             /\ Len(layers') = Len(layers)
             /\ \A i \in DOMAIN layers :
                   /\ layers[i].shown => layers'[i].opacity = value
                   /\ layers'[i].eeObject = layers[i].eeObject
                   /\ layers'[i].name = layers[i].name
                   /\ layers'[i].shown = layers[i].shown
             /\ UNCHANGED << layerSelect, image_info, date, dateSlider, lonlat,
                             rfiChart, textpanel, center, pending, stale >>]_vars

\* C14 witness: the slider moved to 0.45 while the Year layer and the marker
\* are shown and the Month layer is hidden.
C14_Witness ==
    /\ last.op = "opacity"
    /\ opacitySlider = 45
    /\ layers[3].shown /\ layers[3].opacity = 45
    /\ layers[4].shown /\ layers[4].opacity = 45
    /\ ~layers[2].shown

\* Raster b covers the pixels of raster a and is at each of them at least a.
AtLeast(b, a) ==
    /\ DOMAIN a \subseteq DOMAIN b
    /\ \A p \in DOMAIN a : b[p] >= a[p]

\* Window v lies within window w.
Within(v, w) == w.start <= v.start /\ v.end <= w.end

\* The channels of a composite by what they are made of: 1 is VH of the
\* ascending passes, 2 is VV of both passes, 3 is VH of the descending
\* passes.  A channel is there when its collection has an observation in
\* the window; its place in the composite counts the channels before it.
HasChannel(e, role) ==
    CASE role = 1 -> InWindow(e.window, "ASCENDING") # {}
      [] role = 2 -> InWindow(e.window, "ASCENDING")
                        \cup InWindow(e.window, "DESCENDING") # {}
      [] role = 3 -> InWindow(e.window, "DESCENDING") # {}

ChannelOf(e, role) ==
    e.content[Cardinality({r \in 1..role : HasChannel(e, r)})]

C16_InitialState ==
    (last.op = "init") =>
       /\ layerSelect = "Month"
       /\ image_info = "monthly"
       /\ Len(layers) = 4
       /\ \A i \in 1..3 : layers[i].shown <=> (layers[i].name = "Month")
       /\ {layers[i].name : i \in {j \in 1..3 : layers[j].shown}} = {"Month"}
       /\ layers[4].name = "clicked location"
       /\ layers[4].shown
       /\ layers[4].eeObject.point = [lon |-> 49950656, lat |-> 26605644]
       /\ rfiChart.point = [lon |-> 49950656, lat |-> 26605644]
       /\ lonlat = <<4995, 2661>>
       /\ center.lon = 49950656 /\ center.lat = 26605644
       /\ dateSlider.start <= DateNow - 7 * TicksPerDay
       /\ DateNow - 7 * TicksPerDay < dateSlider.end
       /\ dateSlider.end - dateSlider.start = TicksPerDay
       /\ \A i \in 1..3 : layers[i].eeObject.of = dateSlider.start
       /\ date = format(DateNow - 7 * TicksPerDay)
       /\ pending = {} /\ stale = {}

\* C16 witness: the state the script leaves, before any event.
C16_Witness ==
    /\ last.op = "init"
    /\ layers[2].shown
    /\ Civil(dateSlider.start) = [y |-> 2022, m |-> 3, d |-> 1]

\* C17: in the state the selection of the Dammam location leaves, the
\* outline layer of the location is on the map and shown.
C17_OutlineShown ==
    (last.op = "location" /\ last.ok /\ textpanel = loc1_text) =>
       \E i \in DOMAIN layers :
          /\ layers[i].eeObject = outlineLayer.eeObject
          /\ layers[i].shown

\* C18: a date change sets the three granularity layers, the date label and
\* the slider's value and nothing else: the coordinate labels, the marker
\* and every layer after the first three, the chart and its series (of the
\* whole archive, not of the window), the map's centre and zoom, the
\* dropdown's value, the aggregation label, the opacity slider and the text
\* panel are as before.
C18_DateChangeFrame ==
    [][\A t \in SliderDates :
          dateSlider_onChange(t, TRUE, FALSE) =>
             /\ Len(layers') = Len(layers)
             /\ \A i \in 4..Len(layers) : layers'[i] = layers[i]
             /\ rfiChart' = rfiChart
             /\ rfiChart'.data = series(rfiChart.point)
             /\ lonlat' = lonlat
             /\ center' = center
             /\ layerSelect' = layerSelect
             /\ image_info' = image_info
             /\ opacitySlider' = opacitySlider
             /\ textpanel' = textpanel]_vars

\* C18 witness: after a date change, the marker and the chart are still of
\* the clicked point, and the chart holds an entry timed outside the Year
\* window of the new date.
C18_Witness ==
    /\ last.op = "date"
    /\ rfiChart.point = otherPoint
    /\ layers[4].eeObject.point = otherPoint
    /\ \E k \in DOMAIN rfiChart.data :
          \/ rfiChart.data[k][1] < layers[3].eeObject.window.start
          \/ rfiChart.data[k][1] >= layers[3].eeObject.window.end

\* C19: in every state the opacity of each granularity layer that is shown
\* is the value of the opacity slider.
C19_OpacityIsSlider ==
    \A i \in DOMAIN layers :
       (layers[i].shown /\ layers[i].name \in Granularity) =>
          layers[i].opacity = opacitySlider

\* C20: in every state the layer list holds the Day layer at index 0, the
\* Month layer at index 1, the Year layer at index 2 and the clicked-location
\* marker at index 3, and no other layer bears one of these names: get(1)
\* and get(3) of configureExample are the Month layer and the marker.
C20_LayerIndices ==
    /\ Len(layers) >= 4
    /\ listGet(layers, 0).name = "Day"
    /\ listGet(layers, 0).eeObject.type = "ImageCollection"
    /\ listGet(layers, 1).name = "Month"
    /\ listGet(layers, 1).eeObject.type = "Image"
    /\ listGet(layers, 2).name = "Year"
    /\ listGet(layers, 2).eeObject.type = "Image"
    /\ listGet(layers, 3).name = "clicked location"
    /\ listGet(layers, 3).eeObject.type = "FeatureCollection"
    /\ \A i \in 5..Len(layers) :
          layers[i].name \notin {"Day", "Month", "Year", "clicked location"}

\* C20 witness: the list after Dammam was selected twice, two outline layers
\* behind the marker, and a map click made after them.
C20_Witness ==
    /\ Len(layers) = 6
    /\ last.op = "mapClick"
    /\ listGet(layers, 3).eeObject.point = otherPoint
    /\ listGet(layers, 5).eeObject = outlineLayer.eeObject

\* C21: in every state exactly one of the Day, Month and Year layers is
\* shown, whatever events led to the state.
C21_OneGranularityShown ==
    /\ Cardinality({i \in DOMAIN layers :
                       layers[i].name \in Granularity /\ layers[i].shown}) = 1
    /\ Cardinality({i \in 1..3 : layers[i].shown}) = 1
    /\ {layers[i].name : i \in 1..3} = Granularity

\* C21 witness: an example location selected while Year is the dropdown's
\* value: the Month layer is the one shown, the Year layer is hidden.
C21_Witness ==
    /\ last.op = "location"
    /\ layerSelect = "Year"
    /\ layers[2].shown
    /\ ~layers[3].shown
    /\ ~layers[1].shown

\* The places of the layer list that hold an outline layer of a location.
Outlines(list) == {i \in DOMAIN list : list[i].eeObject = outlineLayer.eeObject}

\* C22: the selection of the example location that was selected last leaves
\* the view as it is, and in every state the layer list holds the three
\* granularity layers, the marker and at most one outline layer.
C22_SiteSelectionTwice ==
    /\ [](Cardinality(Outlines(layers)) <= 1 /\ Len(layers) <= 5)
    /\ [][\A value \in locations :
             (/\ last.op = "location"
              /\ last.ok
              /\ textpanel = locationDict[value].text
              /\ locationSelect_onChange(value, TRUE, FALSE))
                => /\ layers' = layers
                   /\ UNCHANGED << layerSelect, image_info, date, dateSlider,
                                   opacitySlider, lonlat, rfiChart, textpanel,
                                   center >>]_vars
=============================================================================
